---- MODULE Spec2Model ----
(***************************************************************************)
(* A model of libtilt's Fourier utilities (libtilt/utils/fft.py), central  *)
(* slice projection (libtilt/projection/fourier.py) and 3D shape masks     *)
(* (libtilt/shapes/shapes_3d.py).                                          *)
(*                                                                         *)
(* The library is a set of functions over tensors.  Each function is an    *)
(* operator computed the way the code computes it, and each family of      *)
(* functions has a specification in which a caller draws the arguments     *)
(* from bounded sets and then calls the functions.                         *)
(*                                                                         *)
(* Conventions                                                             *)
(*   - a tensor is a record [shape |-> <<...>>, data |-> [index -> value]] *)
(*     with 0-based index tuples, as in the code;                          *)
(*   - a complex number is a pair <<re, im>> of integers in fixed point:   *)
(*     the integer n stands for n / Unit, so that the three successive     *)
(*     multiplications by 0.5 the code performs are exact;                 *)
(*   - a frequency k / n is held as its numerator k.                       *)
(***************************************************************************)
EXTENDS Integers, Sequences, FiniteSets, TLC

VARIABLES
    pc,                 \* position of the caller / of the running function
    grid_shape,         \* fft_center: argument
    fftshifted,         \* fft_center: argument
    rfft_flag,          \* fft_center, construct_fftfreq_grid_*: the rfft argument
    center,             \* fft_center: returned index vector; cuboid: argument
    image_shape,        \* construct_fftfreq_grid_*, cuboid: argument
    freq_grid,          \* construct_fftfreq_grid_*: returned grid, or the error raised
    volume,             \* a real cubic volume held by the caller; project: argument
    rfft,               \* the half spectrum held by the caller
    dft,                \* the caller's (symmetrised) DFT buffer; extract_slices:
                        \* argument; project: the local `dft`
    dft0,               \* history: the buffer as it was first produced
    calls,              \* history: the desymmetrising calls made, by inplace flag
    slice_coordinates,  \* extract_slices: argument, (b, h, w, zyx) array coordinates
    samples,            \* extract_slices: returned (b, h, w) complex images
    dimensions,         \* cuboid: argument (depth, height, width)
    mask,               \* cuboid: returned mask
    rotation_matrices,  \* project: argument, one rotation matrix per projection
    zyx,                \* project: argument
    pad,                \* project: argument
    grid,               \* project: the local `grid` of sample points
    in_redundant_half_mask, \* project: the local of that name
    viewer,             \* project: the napari viewer window
    projections,        \* project: the returned (b, d, d) images
    locals              \* project, history: `grid` as it was after lines 119 and 124,
                        \* `projections` as it was after lines 152 and 153

centerVars == <<grid_shape, fftshifted, center>>
gridVars   == <<freq_grid>>
symVars    == <<volume, rfft, dft, dft0, calls>>
sliceVars  == <<slice_coordinates, samples>>
cuboidVars == <<dimensions, mask>>
projectVars == <<rotation_matrices, zyx, pad, grid, in_redundant_half_mask, viewer,
                 projections, locals>>

vars == <<pc, rfft_flag, image_shape, centerVars, gridVars, symVars, sliceVars,
          cuboidVars, projectVars>>

\* Value of a variable that the running specification does not use.
Unused == "unused"

\* The variables of the families of functions a specification does not call.
IdleCenter == grid_shape = Unused /\ fftshifted = Unused /\ center = Unused
IdleGrid   == freq_grid = Unused
IdleSym    ==
    /\ volume = Unused
    /\ rfft = Unused
    /\ dft = Unused
    /\ dft0 = Unused
    /\ calls = Unused
IdleSlices == slice_coordinates = Unused /\ samples = Unused
IdleCuboid == dimensions = Unused /\ mask = Unused
IdleProject ==
    /\ rotation_matrices = Unused
    /\ zyx = Unused
    /\ pad = Unused
    /\ grid = Unused
    /\ in_redundant_half_mask = Unused
    /\ viewer = Unused
    /\ projections = Unused
    /\ locals = Unused

----------------------------------------------------------------------------
(* Bounds of the model *)

\* Largest axis length of a shape handed to the indexing utilities.
MaxLen == 4

\* Largest number of axes of a grid shape handed to fft_center.
MaxDims == 3

\* Half of the largest (even) side length of a spectrum handed to the
\* symmetrisation functions.
MaxHalf == 2

----------------------------------------------------------------------------
(* libtilt/utils/fft.py : indexing utilities *)

Last(s) == s[Len(s)]

\* int((L / 2) + 1) on the last axis: true division, then truncation.
rfft_shape_from_signal_shape(input_shape) ==
    [input_shape EXCEPT ![Len(input_shape)] = (Last(input_shape) \div 2) + 1]

\* A plausible slip: the last axis is left at floor(L'/2) of the rfft shape.
fft_center_no_override(shape, shifted, is_rfft) ==
    LET gs == IF is_rfft THEN rfft_shape_from_signal_shape(shape) ELSE shape
    IN  IF shifted THEN [i \in 1..Len(shape) |-> gs[i] \div 2]
                   ELSE [i \in 1..Len(shape) |-> 0]

fft_center(shape, shifted, is_rfft) ==
    LET zeros == [i \in 1..Len(shape) |-> 0]
        gs    == IF is_rfft THEN rfft_shape_from_signal_shape(shape) ELSE shape
        c     == IF shifted THEN [i \in 1..Len(shape) |-> gs[i] \div 2] ELSE zeros
    IN  IF is_rfft THEN [c EXCEPT ![Len(shape)] = 0] ELSE c

\* Shapes of 1..MaxDims axes with lengths 1..MaxLen, and the documented (8, 8).
GridShapes ==
    UNION {[1..n -> 1..MaxLen] : n \in 1..MaxDims} \cup {<<8, 8>>}

InitCenter ==
    /\ pc = "call"
    /\ grid_shape \in GridShapes
    /\ fftshifted \in BOOLEAN
    /\ rfft_flag \in BOOLEAN
    /\ center = Unused
    /\ image_shape = Unused
    /\ IdleGrid
    /\ IdleSym
    /\ IdleSlices
    /\ IdleCuboid
    /\ IdleProject

Call_fft_center ==
    /\ pc = "call"
    /\ center' = fft_center(grid_shape, fftshifted, rfft_flag)
    /\ pc' = "done"
    /\ UNCHANGED <<grid_shape, fftshifted, rfft_flag, image_shape, gridVars, symVars,
                   sliceVars, cuboidVars, projectVars>>

NextCenter == Call_fft_center

SpecCenter == InitCenter /\ [][NextCenter]_vars

\* C6: fft_center returns 0 on every axis when fftshifted is false, floor(L/2)
\* on each axis of length L when fftshifted is true, and 0 on the last axis
\* whenever rfft is true; (8,8) shifted gives (4,4) without rfft, (4,0) with.
C6_FftCenter ==
    pc = "done" =>
        /\ Len(center) = Len(grid_shape)
        /\ \A i \in 1..Len(grid_shape) :
              center[i] = IF rfft_flag /\ i = Len(grid_shape) THEN 0
                          ELSE IF fftshifted THEN grid_shape[i] \div 2
                          ELSE 0
        /\ (grid_shape = <<8, 8>> /\ fftshifted /\ ~rfft_flag) => center = <<4, 4>>
        /\ (grid_shape = <<8, 8>> /\ fftshifted /\ rfft_flag) => center = <<4, 0>>

C6_Witness ==
    /\ pc = "done"
    /\ grid_shape = <<8, 8>>
    /\ fftshifted
    /\ rfft_flag
    /\ center = <<4, 0>>

----------------------------------------------------------------------------
(* Tensors *)

\* Index tuples of a tensor of the given shape (0-based, row-major axes).
Idx(shape) ==
    CASE Len(shape) = 1 ->
            {<<i>> : i \in 0..(shape[1] - 1)}
      [] Len(shape) = 2 ->
            {<<i, j>> : i \in 0..(shape[1] - 1), j \in 0..(shape[2] - 1)}
      [] Len(shape) = 3 ->
            {<<i, j, k>> : i \in 0..(shape[1] - 1), j \in 0..(shape[2] - 1),
                           k \in 0..(shape[3] - 1)}
      [] Len(shape) = 4 ->
            {<<i, j, k, l>> : i \in 0..(shape[1] - 1), j \in 0..(shape[2] - 1),
                              k \in 0..(shape[3] - 1), l \in 0..(shape[4] - 1)}

Tensor(shape, data) == [shape |-> shape, data |-> data]

\* torch.stack over a new leading axis of tensors of one common shape.
Stack(tensors) ==
    LET sh == tensors[1].shape
        out_shape == <<Len(tensors)>> \o sh
    IN  Tensor(out_shape,
               [ix \in Idx(out_shape) |-> tensors[ix[1] + 1].data[Tail(ix)]])

----------------------------------------------------------------------------
(* libtilt/utils/fft.py : frequency grids *)

\* torch.fft.fftfreq(n) * n : [0, 1, ..., (n-1)//2, -(n//2), ..., -1]
fftfreq(n) ==
    Tensor(<<n>>, [ix \in Idx(<<n>>) |->
                      IF ix[1] <= (n - 1) \div 2 THEN ix[1] ELSE ix[1] - n])

\* torch.fft.rfftfreq(n) * n : [0, 1, ..., n//2]
rfftfreq(n) ==
    LET m == (n \div 2) + 1
    IN  Tensor(<<m>>, [ix \in Idx(<<m>>) |-> ix[1]])

\* einops.repeat(t, 'a -> ...') : the 1D tensor t laid along `axis` of `shape`.
Repeat(t, axis, shape) ==
    Tensor(shape, [ix \in Idx(shape) |-> t.data[<<ix[axis]>>]])

EinopsError == [raised |-> "EinopsError"]
Returned(t) == [raised |-> "none", value |-> t]

\* einops.rearrange(list, 'freq h w -> h w freq'): the list is stacked on a new
\* leading axis; the pattern names three axes and einops raises when the stacked
\* tensor does not have exactly three.
rearrange_freq_h_w(tensors) ==
    LET st == Stack(tensors)
    IN  IF Len(st.shape) # 3
        THEN EinopsError
        ELSE LET out_shape == <<st.shape[2], st.shape[3], st.shape[1]>>
             IN  Returned(Tensor(out_shape,
                     [ix \in Idx(out_shape) |-> st.data[<<ix[3], ix[1], ix[2]>>]]))

construct_fftfreq_grid_2d(shape, is_rfft) ==
    LET freq_y == fftfreq(shape[1])
        freq_x == IF is_rfft THEN rfftfreq(shape[2]) ELSE fftfreq(shape[2])
        hw     == IF is_rfft THEN rfft_shape_from_signal_shape(shape) ELSE shape
        freq_yy == Repeat(freq_y, 1, hw)
        freq_xx == Repeat(freq_x, 2, hw)
    IN  rearrange_freq_h_w(<<freq_yy, freq_xx>>)

construct_fftfreq_grid_3d(shape, is_rfft) ==
    LET freq_z == fftfreq(shape[1])
        freq_y == fftfreq(shape[2])
        freq_x == IF is_rfft THEN rfftfreq(shape[3]) ELSE fftfreq(shape[3])
        dhw    == IF is_rfft THEN rfft_shape_from_signal_shape(shape) ELSE shape
        freq_zz == Repeat(freq_z, 1, dhw)
        freq_yy == Repeat(freq_y, 2, dhw)
        freq_xx == Repeat(freq_x, 3, dhw)
    IN  rearrange_freq_h_w(<<freq_zz, freq_yy, freq_xx>>)

ImageShapes == [1..2 -> 1..MaxLen] \cup [1..3 -> 1..MaxLen]

InitGrid ==
    /\ pc = "call"
    /\ image_shape \in ImageShapes
    /\ rfft_flag \in BOOLEAN
    /\ freq_grid = Unused
    /\ IdleCenter
    /\ IdleSym
    /\ IdleSlices
    /\ IdleCuboid
    /\ IdleProject

Call_construct_fftfreq_grid_2d ==
    /\ pc = "call"
    /\ Len(image_shape) = 2
    /\ freq_grid' = construct_fftfreq_grid_2d(image_shape, rfft_flag)
    /\ pc' = "done"
    /\ UNCHANGED <<rfft_flag, image_shape, centerVars, symVars, sliceVars, cuboidVars,
                   projectVars>>

Call_construct_fftfreq_grid_3d ==
    /\ pc = "call"
    /\ Len(image_shape) = 3
    /\ freq_grid' = construct_fftfreq_grid_3d(image_shape, rfft_flag)
    /\ pc' = "done"
    /\ UNCHANGED <<rfft_flag, image_shape, centerVars, symVars, sliceVars, cuboidVars,
                   projectVars>>

NextGrid ==
    \/ Call_construct_fftfreq_grid_2d
    \/ Call_construct_fftfreq_grid_3d

SpecGrid == InitGrid /\ [][NextGrid]_vars

\* The unshifted DFT sample frequency (numerator) at index i of an axis of
\* length n, and its non-negative half.
SampleFrequency(i, n) == IF 2 * i < n THEN i ELSE i - n

\* C7: construct_fftfreq_grid_3d(image_shape=(d, h, w), rfft) returns a dense
\* grid of shape (d, h, W, 3), W = w without rfft and floor(w/2)+1 with rfft,
\* whose entry at (i, j, k) is (fz[i], fy[j], fx[k]); the call returns the grid
\* rather than failing.
C7_FftfreqGrid3d ==
    (pc = "done" /\ Len(image_shape) = 3) =>
        /\ freq_grid.raised = "none"
        /\ LET W == IF rfft_flag THEN (image_shape[3] \div 2) + 1 ELSE image_shape[3]
               g == freq_grid.value
           IN  /\ g.shape = <<image_shape[1], image_shape[2], W, 3>>
               /\ \A i \in 0..(image_shape[1] - 1), j \in 0..(image_shape[2] - 1),
                     k \in 0..(W - 1) :
                     /\ g.data[<<i, j, k, 0>>] = SampleFrequency(i, image_shape[1])
                     /\ g.data[<<i, j, k, 1>>] = SampleFrequency(j, image_shape[2])
                     /\ g.data[<<i, j, k, 2>>] =
                            IF rfft_flag THEN k ELSE SampleFrequency(k, image_shape[3])

\* The 2D grid, built by the same steps, is returned with the frequencies of
\* the two axes at each point.
FftfreqGrid2dReturned ==
    (pc = "done" /\ Len(image_shape) = 2) =>
        /\ freq_grid.raised = "none"
        /\ LET W == IF rfft_flag THEN (image_shape[2] \div 2) + 1 ELSE image_shape[2]
               g == freq_grid.value
           IN  /\ g.shape = <<image_shape[1], W, 2>>
               /\ \A i \in 0..(image_shape[1] - 1), k \in 0..(W - 1) :
                     /\ g.data[<<i, k, 0>>] = SampleFrequency(i, image_shape[1])
                     /\ g.data[<<i, k, 1>>] =
                            IF rfft_flag THEN k ELSE SampleFrequency(k, image_shape[2])

----------------------------------------------------------------------------
(* Complex numbers in fixed point *)

\* The integer n stands for n / Unit; the values the caller supplies are whole
\* multiples of Unit, which keeps six successive halvings exact.
Unit == 2 ^ 6

CZero == <<0, 0>>
CAdd(a, b) == <<a[1] + b[1], a[2] + b[2]>>
Conj(a) == <<a[1], 0 - a[2]>>
\* 0.5 * a
Half(a) == <<a[1] \div 2, a[2] \div 2>>

----------------------------------------------------------------------------
(* torch.fft shifts and views *)

NoTensor == [shape |-> <<>>]

\* The index ix moved by sign * (n // 2), modulo n, along each of the axes.
RECURSIVE RollIndex(_, _, _, _)
RollIndex(ix, shape, axes, sign) ==
    IF axes = {} THEN ix
    ELSE LET a == CHOOSE b \in axes : TRUE
         IN  RollIndex([ix EXCEPT ![a] = (ix[a] + sign * (shape[a] \div 2)) % shape[a]],
                       shape, axes \ {a}, sign)

\* torch.fft.fftshift(t, dim=axes): a roll by n // 2 along each axis.
fftshift(t, axes) ==
    Tensor(t.shape,
           [ix \in Idx(t.shape) |-> t.data[RollIndex(ix, t.shape, axes, 0 - 1)]])

\* torch.fft.ifftshift(t, dim=axes): a roll by -(n // 2) along each axis.
ifftshift(t, axes) ==
    Tensor(t.shape,
           [ix \in Idx(t.shape) |-> t.data[RollIndex(ix, t.shape, axes, 1)]])

\* einops.rearrange(t, 'h w -> 1 h w'): a view with a leading axis of length 1.
AddBatch(t) ==
    Tensor(<<1>> \o t.shape, [ix \in Idx(<<1>> \o t.shape) |-> t.data[Tail(ix)]])

\* The tensor behind the view made by AddBatch.
DropBatch(t) ==
    Tensor(Tail(t.shape), [ix \in Idx(Tail(t.shape)) |-> t.data[<<0>> \o ix]])

----------------------------------------------------------------------------
(* libtilt/utils/fft.py : rfft -> symmetrised DFT *)

rfft_to_symmetrised_dft_2d(x) ==
    LET n  == Len(x.shape)
        r  == x.shape[n - 1]                       \* r = rfft.shape[-2]
        out_shape == [x.shape EXCEPT ![n - 1] = r + 1, ![n] = r + 1]
        dc == r \div 2
        sh == fftshift(x, {n - 1})                 \* fftshift(rfft, dim=(-2,))
        \* output = zeros; output[..., :-1, dc:] = rfft
        o1 == [ix \in Idx(out_shape) |->
                  IF ix[n - 1] < r /\ ix[n] >= dc
                  THEN sh.data[[ix EXCEPT ![n] = ix[n] - dc]]
                  ELSE CZero]
        \* output[..., -1, dc:] = rfft[..., 0, :]
        o2 == [ix \in Idx(out_shape) |->
                  IF ix[n - 1] = r /\ ix[n] >= dc
                  THEN sh.data[[ix EXCEPT ![n - 1] = 0, ![n] = ix[n] - dc]]
                  ELSE o1[ix]]
        \* output[..., :, :dc] = flip(conj(output[..., :, dc + 1:]), dims=(-2, -1))
        o3 == [ix \in Idx(out_shape) |->
                  IF ix[n] < dc
                  THEN Conj(o2[[ix EXCEPT ![n - 1] = r - ix[n - 1],
                                          ![n] = (dc + 1) + (((r - dc) - 1) - ix[n])]])
                  ELSE o2[ix]]
    IN  Tensor(out_shape, o3)

\* A plausible slip: the redundant half is mirrored along two axes only.
rfft_to_symmetrised_dft_3d_flip_two(x) ==
    LET n  == Len(x.shape)
        r  == x.shape[n - 2]
        out_shape == [x.shape EXCEPT ![n - 2] = r + 1, ![n - 1] = r + 1, ![n] = r + 1]
        sh == fftshift(x, {n - 2, n - 1})
        dc == r \div 2
        right == [ix \in Idx(out_shape) |->
                  IF ix[n] >= dc
                  THEN sh.data[[ix EXCEPT ![n - 2] = ix[n - 2] % r,
                                          ![n - 1] = ix[n - 1] % r,
                                          ![n] = ix[n] - dc]]
                  ELSE CZero]
        o5 == [ix \in Idx(out_shape) |->
                  IF ix[n] < dc
                  THEN Conj(right[[ix EXCEPT ![n - 1] = r - ix[n - 1],
                                             ![n] = (dc + 1) + (((r - dc) - 1) - ix[n])]])
                  ELSE right[ix]]
    IN  Tensor(out_shape, o5)

\* A plausible slip: the components at Nyquist are not replicated, so the last
\* index of the two full-length axes stays zero.
rfft_to_symmetrised_dft_3d_no_replication(x) ==
    LET n  == Len(x.shape)
        r  == x.shape[n - 2]
        out_shape == [x.shape EXCEPT ![n - 2] = r + 1, ![n - 1] = r + 1, ![n] = r + 1]
        sh == fftshift(x, {n - 2, n - 1})
        dc == r \div 2
        o1 == [ix \in Idx(out_shape) |->
                  IF ix[n - 2] < r /\ ix[n - 1] < r /\ ix[n] >= dc
                  THEN sh.data[[ix EXCEPT ![n] = ix[n] - dc]]
                  ELSE CZero]
        o5 == [ix \in Idx(out_shape) |->
                  IF ix[n] < dc
                  THEN Conj(o1[[ix EXCEPT ![n - 2] = r - ix[n - 2],
                                          ![n - 1] = r - ix[n - 1],
                                          ![n] = (dc + 1) + (((r - dc) - 1) - ix[n])]])
                  ELSE o1[ix]]
    IN  Tensor(out_shape, o5)

rfft_to_symmetrised_dft_3d(x) ==
    LET n  == Len(x.shape)
        r  == x.shape[n - 2]                       \* r = rfft.shape[-3]
        out_shape == [x.shape EXCEPT ![n - 2] = r + 1, ![n - 1] = r + 1, ![n] = r + 1]
        sh == fftshift(x, {n - 2, n - 1})          \* fftshift(rfft, dim=(-3, -2))
        dc == r \div 2
        \* output = zeros; output[..., :-1, :-1, dc:] = rfft
        o1 == [ix \in Idx(out_shape) |->
                  IF ix[n - 2] < r /\ ix[n - 1] < r /\ ix[n] >= dc
                  THEN sh.data[[ix EXCEPT ![n] = ix[n] - dc]]
                  ELSE CZero]
        \* output[..., :-1, -1, dc:] = rfft[..., :, 0, :]
        o2 == [ix \in Idx(out_shape) |->
                  IF ix[n - 2] < r /\ ix[n - 1] = r /\ ix[n] >= dc
                  THEN sh.data[[ix EXCEPT ![n - 1] = 0, ![n] = ix[n] - dc]]
                  ELSE o1[ix]]
        \* output[..., -1, :-1, dc:] = rfft[..., 0, :, :]
        o3 == [ix \in Idx(out_shape) |->
                  IF ix[n - 2] = r /\ ix[n - 1] < r /\ ix[n] >= dc
                  THEN sh.data[[ix EXCEPT ![n - 2] = 0, ![n] = ix[n] - dc]]
                  ELSE o2[ix]]
        \* output[..., -1, -1, dc:] = rfft[..., 0, 0, :]
        o4 == [ix \in Idx(out_shape) |->
                  IF ix[n - 2] = r /\ ix[n - 1] = r /\ ix[n] >= dc
                  THEN sh.data[[ix EXCEPT ![n - 2] = 0, ![n - 1] = 0, ![n] = ix[n] - dc]]
                  ELSE o3[ix]]
        \* output[..., :, :, :dc] =
        \*     flip(conj(output[..., :, :, dc + 1:]), dims=(-3, -2, -1))
        o5 == [ix \in Idx(out_shape) |->
                  IF ix[n] < dc
                  THEN Conj(o4[[ix EXCEPT ![n - 2] = r - ix[n - 2],
                                          ![n - 1] = r - ix[n - 1],
                                          ![n] = (dc + 1) + (((r - dc) - 1) - ix[n])]])
                  ELSE o4[ix]]
    IN  Tensor(out_shape, o5)

----------------------------------------------------------------------------
(* libtilt/utils/fft.py : symmetrised DFT -> DFT, rfft *)

\* t[..., :-1, :-1] or t[..., :-1, :-1, :-1]: the last index of each of the
\* trailing `k` axes is dropped.
DropLastIndex(t, k) ==
    LET n == Len(t.shape)
        out_shape == [a \in 1..n |-> IF a > n - k THEN t.shape[a] - 1 ELSE t.shape[a]]
    IN  Tensor(out_shape, [ix \in Idx(out_shape) |-> t.data[ix]])

\* dft[..., :, 0] = (0.5 * dft[..., :, 0]) + (0.5 * dft[..., :, -1]) along `axis`
AverageFirstWithLast(d, shape, axis) ==
    [ix \in Idx(shape) |->
        IF ix[axis] = 0
        THEN CAdd(Half(d[ix]), Half(d[[ix EXCEPT ![axis] = shape[axis] - 1]]))
        ELSE d[ix]]

\* A plausible slip: the clone is skipped and the caller's buffer is written to
\* whatever the flag says.
CallerBufferAfter_no_clone(work, before, inplace) == work

\* The caller's buffer once the call has returned: the array the function
\* worked on when it worked in place, untouched when it worked on a clone.
CallerBufferAfter(work, before, inplace) == IF inplace THEN work ELSE before

\* A plausible slip: the second average reads the input, not the result of the
\* first, so that the corner is the mean of two copies only.
average_nyquist_2d_from_input(d) ==
    LET n  == Len(d.shape)
        d1 == AverageFirstWithLast(d.data, d.shape, n)
        d2 == [ix \in Idx(d.shape) |->
                  IF ix[n - 1] = 0
                  THEN AverageFirstWithLast(d.data, d.shape, n - 1)[ix]
                  ELSE d1[ix]]
    IN  Tensor(d.shape, d2)

\* The two averaging statements of symmetrised_dft_to_dft_2d.
average_nyquist_2d(d) ==
    LET n  == Len(d.shape)
        d1 == AverageFirstWithLast(d.data, d.shape, n)
        d2 == AverageFirstWithLast(d1, d.shape, n - 1)
    IN  Tensor(d.shape, d2)

symmetrised_dft_to_dft_2d(d, inplace) ==
    LET work == average_nyquist_2d(d)
    IN  [ret    |-> DropLastIndex(work, 2),
         buffer |-> CallerBufferAfter(work, d, inplace)]

\* The three averaging statements of symmetrised_dft_to_dft_3d.
average_nyquist_3d(d) ==
    LET n  == Len(d.shape)
        d1 == AverageFirstWithLast(d.data, d.shape, n)
        d2 == AverageFirstWithLast(d1, d.shape, n - 1)
        d3 == AverageFirstWithLast(d2, d.shape, n - 2)
    IN  Tensor(d.shape, d3)

symmetrised_dft_to_dft_3d(d, inplace) ==
    LET work == average_nyquist_3d(d)
    IN  [ret    |-> DropLastIndex(work, 3),
         buffer |-> CallerBufferAfter(work, d, inplace)]

\* A plausible slip: the redundant half is discarded, not folded back
\* (the right half is scaled by 0.5 and nothing is added).
average_hermitian_halves_scaled_only(d3) ==
    LET h  == d3.shape[2]
        dc == h \div 2
        r  == dc + 1
        s1 == [ix \in Idx(d3.shape) |->
                  IF ix[3] >= r THEN Half(d3.data[ix]) ELSE d3.data[ix]]
    IN  Tensor(d3.shape, s1)

\* The averaging statements of symmetrised_dft_to_rfft_2d, on a (b, h, w) array.
average_hermitian_halves(d3) ==
    LET h  == d3.shape[2]
        dc == h \div 2
        r  == dc + 1
        \* rfft[..., :, r:] *= 0.5
        s1 == [ix \in Idx(d3.shape) |->
                  IF ix[3] >= r THEN Half(d3.data[ix]) ELSE d3.data[ix]]
        \* rfft[..., :, r:] += 0.5 * flip(conj(rfft[..., :, :dc]), dims=(-2, -1))
        s2 == [ix \in Idx(d3.shape) |->
                  IF ix[3] >= r
                  THEN CAdd(s1[ix],
                            Half(Conj(s1[[ix EXCEPT ![2] = (h - 1) - ix[2],
                                                    ![3] = (dc - 1) - (ix[3] - r)]])))
                  ELSE s1[ix]]
        \* rfft[..., 0, r:] = (0.5 * rfft[..., 0, r:]) + (0.5 * rfft[..., -1, r:])
        s3 == [ix \in Idx(d3.shape) |->
                  IF ix[2] = 0 /\ ix[3] >= r
                  THEN CAdd(Half(s2[ix]), Half(s2[[ix EXCEPT ![2] = h - 1]]))
                  ELSE s2[ix]]
    IN  Tensor(d3.shape, s3)

symmetrised_dft_to_rfft_2d(d, inplace) ==
    LET batched == Len(d.shape) # 2
        d3   == IF batched THEN d ELSE AddBatch(d)      \* a view of the caller's array
        h    == d3.shape[2]
        w    == d3.shape[3]
        dc   == h \div 2
        work == average_hermitian_halves(d3)
        \* rfft = rfft[..., :-1, dc:]
        out_shape == <<d3.shape[1], h - 1, w - dc>>
        cut  == Tensor(out_shape,
                       [ix \in Idx(out_shape) |-> work.data[[ix EXCEPT ![3] = ix[3] + dc]]])
    IN  [ret    |-> ifftshift(cut, {2}),
         buffer |-> CallerBufferAfter(IF batched THEN work ELSE DropBatch(work),
                                      d, inplace)]

----------------------------------------------------------------------------
(* torch.fft.rfftn / fftn of a real cubic volume, for the side lengths whose  *)
(* roots of unity are Gaussian integers (1, 2 and 4).                         *)

\* a * exp(-2 pi i k / n) for a real a and n dividing 4.
Twiddle(a, k, n) ==
    LET q == (k * (4 \div n)) % 4
    IN  CASE q = 0 -> <<a, 0>>
          [] q = 1 -> <<0, 0 - a>>
          [] q = 2 -> <<0 - a, 0>>
          [] q = 3 -> <<0, a>>

RECURSIVE CSum(_, _)
CSum(S, F) ==
    IF S = {} THEN CZero
    ELSE LET x == CHOOSE y \in S : TRUE
         IN  CAdd(F[x], CSum(S \ {x}, F))

\* The DFT sum at frequency index f; voxels holding 0 contribute nothing.
DftAt(v, f) ==
    LET n == v.shape[1]
        support == {p \in Idx(v.shape) : v.data[p] # 0}
    IN  CSum(support,
             [p \in support |->
                 Twiddle(v.data[p], f[1] * p[1] + f[2] * p[2] + f[3] * p[3], n)])

fftn(v) ==
    Tensor(v.shape, [f \in Idx(v.shape) |-> DftAt(v, f)])

rfftn(v) ==
    LET out_shape == rfft_shape_from_signal_shape(v.shape)
    IN  Tensor(out_shape, [f \in Idx(out_shape) |-> DftAt(v, f)])

----------------------------------------------------------------------------
(* The caller of the symmetrisation functions *)

\* Even side lengths.
Sides == {2 * k : k \in 1..MaxHalf}

\* Side lengths whose DFT is exact over the Gaussian integers.
DftSides == {2, 4}

\* i and 1 - i: a basis of the complex numbers over the reals.
SpikeValues == {<<0, Unit>>, <<Unit, 0 - Unit>>}

\* The tensors of one shape that hold one non-zero value.  The functions are
\* linear over the reals, and these tensors (with real and imaginary values)
\* span the inputs.
Spikes(shape) ==
    {Tensor(shape, [ix \in Idx(shape) |-> IF ix = p THEN v ELSE CZero]) :
        p \in Idx(shape), v \in SpikeValues}

\* rfftn outputs of square images and of cubic volumes: (N, N/2+1), (N, N, N/2+1).
RfftInputs ==
    UNION {Spikes(<<n, (n \div 2) + 1>>) \cup Spikes(<<n, n, (n \div 2) + 1>>) :
              n \in Sides}

\* Symmetrised arrays with arbitrary contents: (N+1, N+1), (N+1, N+1, N+1).
SymmetrisedInputs ==
    UNION {Spikes(<<n + 1, n + 1>>) \cup Spikes(<<n + 1, n + 1, n + 1>>) : n \in Sides}

\* Real cubic volumes: one voxel of amplitude a, over a voxel b at the origin.
Volumes ==
    UNION {{Tensor(<<n, n, n>>,
                   [ix \in Idx(<<n, n, n>>) |->
                       (IF ix = p THEN a * Unit ELSE 0)
                       + (IF ix = <<0, 0, 0>> THEN b * Unit ELSE 0)]) :
               p \in Idx(<<n, n, n>>),
               a \in {1, 0 - 1},
               b \in {0, 1}} :
           n \in DftSides}

NoCall == [fn |-> "none"]

InitSym ==
    /\ calls = [m \in BOOLEAN |-> NoCall]
    /\ \/ /\ pc = "volume"
          /\ volume \in Volumes
          /\ rfft = NoTensor
          /\ dft = NoTensor
          /\ dft0 = NoTensor
       \/ /\ pc = "rfft"
          /\ volume = NoTensor
          /\ rfft \in RfftInputs
          /\ dft = NoTensor
          /\ dft0 = NoTensor
       \/ /\ pc = "symmetrised"
          /\ volume = NoTensor
          /\ rfft = NoTensor
          /\ dft \in SymmetrisedInputs
          /\ dft0 = dft
    /\ rfft_flag = Unused
    /\ image_shape = Unused
    /\ IdleCenter
    /\ IdleGrid
    /\ IdleSlices
    /\ IdleCuboid
    /\ IdleProject

symOutside ==
    <<rfft_flag, image_shape, centerVars, gridVars, sliceVars, cuboidVars, projectVars>>

Call_rfftn ==
    /\ pc = "volume"
    /\ rfft' = rfftn(volume)
    /\ pc' = "rfft"
    /\ UNCHANGED <<volume, dft, dft0, calls, symOutside>>

Call_rfft_to_symmetrised_dft_2d ==
    /\ pc = "rfft"
    /\ Len(rfft.shape) = 2
    /\ dft' = rfft_to_symmetrised_dft_2d(rfft)
    /\ dft0' = dft'
    /\ pc' = "symmetrised"
    /\ UNCHANGED <<volume, rfft, calls, symOutside>>

Call_rfft_to_symmetrised_dft_3d ==
    /\ pc = "rfft"
    /\ Len(rfft.shape) = 3
    /\ dft' = rfft_to_symmetrised_dft_3d(rfft)
    /\ dft0' = dft'
    /\ pc' = "symmetrised"
    /\ UNCHANGED <<volume, rfft, calls, symOutside>>

\* The inplace argument as the caller writes it: left out, False or True.
InplaceArguments == {"omitted", "False", "True"}

\* `inplace: bool = True` in the three signatures.
InplaceValue(given) == IF given = "omitted" THEN TRUE ELSE given = "True"

\* The caller calls one desymmetrising function on its buffer, at most once
\* with each value of the inplace flag.
MayCall(fn, inplace, rank) ==
    /\ pc = "symmetrised"
    /\ Len(dft.shape) = rank
    /\ calls[inplace].fn = "none"
    /\ calls[~inplace].fn \in {"none", fn}

Record(fn, given, res) ==
    /\ calls' = [calls EXCEPT ![InplaceValue(given)] =
                    [fn |-> fn, given |-> given, arg |-> dft,
                     ret |-> res.ret, after |-> res.buffer]]
    /\ dft' = res.buffer
    /\ UNCHANGED <<pc, volume, rfft, dft0, symOutside>>

Call_symmetrised_dft_to_dft_2d ==
    \E given \in InplaceArguments :
        /\ MayCall("symmetrised_dft_to_dft_2d", InplaceValue(given), 2)
        /\ Record("symmetrised_dft_to_dft_2d", given,
                  symmetrised_dft_to_dft_2d(dft, InplaceValue(given)))

Call_symmetrised_dft_to_rfft_2d ==
    \E given \in InplaceArguments :
        /\ MayCall("symmetrised_dft_to_rfft_2d", InplaceValue(given), 2)
        /\ Record("symmetrised_dft_to_rfft_2d", given,
                  symmetrised_dft_to_rfft_2d(dft, InplaceValue(given)))

Call_symmetrised_dft_to_dft_3d ==
    \E given \in InplaceArguments :
        /\ MayCall("symmetrised_dft_to_dft_3d", InplaceValue(given), 3)
        /\ Record("symmetrised_dft_to_dft_3d", given,
                  symmetrised_dft_to_dft_3d(dft, InplaceValue(given)))

NextSym ==
    \/ Call_rfftn
    \/ Call_rfft_to_symmetrised_dft_2d
    \/ Call_rfft_to_symmetrised_dft_3d
    \/ Call_symmetrised_dft_to_dft_2d
    \/ Call_symmetrised_dft_to_rfft_2d
    \/ Call_symmetrised_dft_to_dft_3d

SpecSym == InitSym /\ [][NextSym]_vars

\* C1 as stated: for every rfft input X of a square image of even side N (shape
\* (N, N/2+1), any complex values), symmetrised_dft_to_rfft_2d applied to
\* rfft_to_symmetrised_dft_2d(X) has the same elements at the same indices as X.
C1_SameIndices ==
    \A m \in BOOLEAN :
        (/\ calls[m].fn = "symmetrised_dft_to_rfft_2d"
         /\ rfft # NoTensor
         /\ calls[m].arg = dft0)
        => /\ calls[m].ret.shape = rfft.shape
           /\ \A ix \in Idx(rfft.shape) : calls[m].ret.data[ix] = rfft.data[ix]

\* C1, amended: for every such X the result has shape (1, N, N/2+1), the
\* function having put a leading axis of length 1 before the unbatched array,
\* and its element at [0, i, k] is X[i, k].
C1_RoundTrip2d ==
    \A m \in BOOLEAN :
        (/\ calls[m].fn = "symmetrised_dft_to_rfft_2d"
         /\ rfft # NoTensor
         /\ calls[m].arg = dft0)
        => /\ calls[m].ret.shape = <<1>> \o rfft.shape
           /\ \A ix \in Idx(rfft.shape) :
                 calls[m].ret.data[<<0>> \o ix] = rfft.data[ix]

C1_Witness ==
    \E m \in BOOLEAN :
        /\ calls[m].fn = "symmetrised_dft_to_rfft_2d"
        /\ rfft # NoTensor
        /\ calls[m].arg = dft0
        /\ rfft.shape = <<4, 3>>
        /\ rfft.data[<<2, 2>>] = <<Unit, 0 - Unit>>
        /\ calls[m].ret.data[<<0, 2, 2>>] = <<Unit, 0 - Unit>>

\* C3: in the output S of rfft_to_symmetrised_dft_3d for an input of even side
\* N (S has shape (N+1, N+1, N+1), dc = N/2), every S[z, y, x] with x < dc is
\* the complex conjugate of S[N-z, N-y, N-x].
C3_HermitianHalf3d ==
    (pc = "symmetrised" /\ rfft # NoTensor /\ Len(rfft.shape) = 3) =>
        LET N  == rfft.shape[1]
            dc == N \div 2
        IN  /\ dft0.shape = <<N + 1, N + 1, N + 1>>
            /\ \A ix \in Idx(dft0.shape) :
                  ix[3] < dc =>
                      dft0.data[ix] =
                          Conj(dft0.data[<<N - ix[1], N - ix[2], N - ix[3]>>])

C3_Witness ==
    /\ pc = "symmetrised"
    /\ rfft # NoTensor
    /\ rfft.shape = <<4, 4, 3>>
    /\ rfft.data[<<1, 3, 1>>] = <<Unit, 0 - Unit>>
    /\ dft0.data[<<3, 1, 3>>] = <<Unit, 0 - Unit>>
    /\ dft0.data[<<1, 3, 1>>] = <<Unit, Unit>>

\* The frequency index i - N/2 of the centred ordering, as an index 0..N-1.
CentredFrequency(i, N) == (i - (N \div 2)) % N

\* C2: for every real cubic volume of even side N with X = rfftn(volume),
\* symmetrised_dft_to_dft_3d(rfft_to_symmetrised_dft_3d(X)) has shape (N, N, N)
\* and is the full DFT of the volume in centred ordering: the element at
\* (i, j, k) is the DFT value at frequency (i-N/2, j-N/2, k-N/2), which is X
\* there when the frequency is stored and the conjugate of X at the negated
\* frequency otherwise.
C2_RoundTrip3d ==
    \A m \in BOOLEAN :
        (/\ calls[m].fn = "symmetrised_dft_to_dft_3d"
         /\ volume # NoTensor
         /\ calls[m].arg = dft0)
        => LET N    == volume.shape[1]
               full == fftn(volume)
               out  == calls[m].ret
           IN  /\ out.shape = <<N, N, N>>
               /\ \A ix \in Idx(out.shape) :
                     LET fz == CentredFrequency(ix[1], N)
                         fy == CentredFrequency(ix[2], N)
                         fx == CentredFrequency(ix[3], N)
                     IN  /\ out.data[ix] = full.data[<<fz, fy, fx>>]
                         /\ out.data[ix] =
                               IF fx <= N \div 2
                               THEN rfft.data[<<fz, fy, fx>>]
                               ELSE Conj(rfft.data[<<(N - fz) % N, (N - fy) % N,
                                                     (N - fx) % N>>])

\* A volume of side 4 with one voxel off the origin: its spectrum has imaginary
\* parts, and the element looked at lies in the half that rfftn does not store.
C2_Witness ==
    \E m \in BOOLEAN :
        /\ calls[m].fn = "symmetrised_dft_to_dft_3d"
        /\ volume # NoTensor
        /\ calls[m].arg = dft0
        /\ volume.shape = <<4, 4, 4>>
        /\ volume.data[<<1, 2, 3>>] = Unit
        /\ volume.data[<<0, 0, 0>>] = Unit
        /\ calls[m].ret.data[<<2, 2, 1>>] = <<Unit, 0 - Unit>>
        /\ rfft.data[<<0, 0, 1>>] = <<Unit, Unit>>

\* Whether the buffer the caller passed is what the function returned a view
\* of: the returned element at ix is the buffer's element at the same place.
ReturnedFromBuffer(c) ==
    IF c.fn = "symmetrised_dft_to_rfft_2d"
    THEN LET N  == c.arg.shape[1] - 1
             dc == c.arg.shape[1] \div 2
         IN  \A ix \in Idx(c.ret.shape) :
                 c.ret.data[ix] = c.after.data[<<(ix[2] + (N \div 2)) % N, ix[3] + dc>>]
    ELSE \A ix \in Idx(c.ret.shape) : c.ret.data[ix] = c.after.data[ix]

\* C8: for symmetrised_dft_to_dft_2d, symmetrised_dft_to_dft_3d and
\* symmetrised_dft_to_rfft_2d, a call with inplace=False leaves every element of
\* the caller's array unchanged, a call with inplace=True writes the averaged
\* values into the caller's buffer (what is returned is read from it), and the
\* returned values are the same in both modes.
C8_Inplace ==
    /\ \A m \in BOOLEAN :
          calls[m].fn # "none" =>
              IF calls[m].given = "False"
              THEN calls[m].after = calls[m].arg
              ELSE ReturnedFromBuffer(calls[m])
    /\ (/\ calls[FALSE].fn # "none"
        /\ calls[TRUE].fn # "none"
        /\ calls[FALSE].arg = calls[TRUE].arg)
       => calls[FALSE].ret = calls[TRUE].ret

\* Both modes were called on the same array, the in-place one by default; it
\* changed the caller's buffer and the other did not.
C8_Witness ==
    /\ calls[FALSE].fn = "symmetrised_dft_to_dft_3d"
    /\ calls[TRUE].fn = "symmetrised_dft_to_dft_3d"
    /\ calls[TRUE].given = "omitted"
    /\ calls[FALSE].arg = calls[TRUE].arg
    /\ calls[FALSE].after = calls[FALSE].arg
    /\ calls[TRUE].after # calls[TRUE].arg
    /\ calls[FALSE].ret = calls[TRUE].ret

\* The input elements whose mean an output element is: each index component
\* that is 0 is replaced by either 0 or the last index N.
Alternatives(i, N) == IF i = 0 THEN {0, N} ELSE {i}

Copies(ix, N) ==
    IF Len(ix) = 2
    THEN {<<a, b>> : a \in Alternatives(ix[1], N), b \in Alternatives(ix[2], N)}
    ELSE {<<a, b, c>> : a \in Alternatives(ix[1], N), b \in Alternatives(ix[2], N),
                        c \in Alternatives(ix[3], N)}

\* Sum of the elements of `data` at the indices in S, divided by their number.
Mean(data, S) ==
    LET total == CSum(S, [jx \in S |-> data[jx]])
    IN  <<total[1] \div Cardinality(S), total[2] \div Cardinality(S)>>

\* C10: symmetrised_dft_to_dft_2d / _3d average all duplicated Nyquist copies
\* with equal weight before dropping the last index of each axis: an output
\* element at an index with no zero component is the input there, and one with
\* zero on m axes is the mean of the 2^m input elements obtained by replacing
\* each zero by 0 or N.
C10_EqualWeights ==
    \A m \in BOOLEAN :
        calls[m].fn \in {"symmetrised_dft_to_dft_2d", "symmetrised_dft_to_dft_3d"}
        => LET N == calls[m].arg.shape[1] - 1
               k == Len(calls[m].arg.shape)
           IN  /\ calls[m].ret.shape = [a \in 1..k |-> N]
               /\ \A ix \in Idx(calls[m].ret.shape) :
                     /\ Cardinality(Copies(ix, N)) =
                            2 ^ Cardinality({a \in 1..k : ix[a] = 0})
                     /\ calls[m].ret.data[ix] = Mean(calls[m].arg.data, Copies(ix, N))

\* A value at the far corner [N, N, N] of a 3D input reaches the output corner
\* [0, 0, 0] with weight 1/8; a value at [N, N] of a 2D input with weight 1/4.
C10_Witness ==
    \E m \in BOOLEAN :
        /\ calls[m].fn = "symmetrised_dft_to_dft_3d"
        /\ calls[m].arg.shape = <<5, 5, 5>>
        /\ calls[m].arg.data[<<4, 4, 4>>] = <<Unit, 0 - Unit>>
        /\ calls[m].ret.data[<<0, 0, 0>>] = <<Unit \div 8, 0 - (Unit \div 8)>>

----------------------------------------------------------------------------
(* libtilt/projection/fourier.py : extract_slices *)

\* Largest side of a DFT handed to extract_slices.
MaxSide == 2

\* How far outside the cube, in voxels, a sampling point may lie.
Margin == 1

\* A coordinate is held in half voxels (the integer c stands for c / 2); a
\* normalised coordinate is a fraction [num, den].

\* libtilt.utils.coordinates.array_to_grid_sample: each axis' [0, N-1] mapped
\* linearly to [-1, 1], in the xyz order grid_sample reads.
array_to_grid_sample(coords, array_shape) ==
    LET out_shape == coords.shape
        n == Len(out_shape)
    IN  Tensor(out_shape,
               [ix \in Idx(out_shape) |->
                   LET axis == 3 - ix[n]           \* zyx -> xyz
                       c    == coords.data[[ix EXCEPT ![n] = axis - 1]]
                       N    == array_shape[axis]
                   IN  [num |-> c - (N - 1), den |-> N - 1]])

\* F.grid_sample's coordinate for one axis, in half voxels: un-normalised with
\* align_corners=True, ((g + 1) / 2) * (size - 1), then clipped to the border.
BorderCoordinate(g, size) ==
    LET x == ((g.num + g.den) * (size - 1)) \div g.den
    IN  IF x < 0 THEN 0
        ELSE IF x > 2 * (size - 1) THEN 2 * (size - 1)
        ELSE x

\* Trilinear interpolation of one channel of `d` at (z, y, x) in half voxels:
\* the eight neighbours weighted by the products of their distances, those
\* beyond the array (weight 0 at the border) left out.
Trilinear(d, shape, channel, z, y, x) ==
    LET Weight(c, corner) == IF corner = 0 THEN 2 - (c % 2) ELSE c % 2
        Voxel(c, corner)  == (c \div 2) + corner
        Term(cz, cy, cx)  ==
            LET iz == Voxel(z, cz)
                iy == Voxel(y, cy)
                jx == Voxel(x, cx)
            IN  IF iz < shape[1] /\ iy < shape[2] /\ jx < shape[3]
                THEN Weight(z, cz) * Weight(y, cy) * Weight(x, cx)
                        * d[<<iz, iy, jx>>][channel]
                ELSE 0
    IN  (Term(0, 0, 0) + Term(0, 0, 1) + Term(0, 1, 0) + Term(0, 1, 1)
         + Term(1, 0, 0) + Term(1, 0, 1) + Term(1, 1, 0) + Term(1, 1, 1)) \div 8

\* logical_or(slice_coordinates > 0, slice_coordinates < 1), per component.
InsideComponent(g) == (g.num > 0) \/ (g.num < g.den)

extract_slices(d, coords) ==
    LET g == array_to_grid_sample(coords, d.shape)
        out_shape == <<coords.shape[1], coords.shape[2], coords.shape[3]>>
        Point(ix, a) == g.data[ix \o <<a>>]          \* a = 0, 1, 2: x, y, z
        \* samples = F.grid_sample(..., mode='bilinear', padding_mode='border',
        \*                         align_corners=True), one channel at a time
        Sample(ix, channel) ==
            Trilinear(d.data, d.shape, channel,
                      BorderCoordinate(Point(ix, 2), d.shape[1]),
                      BorderCoordinate(Point(ix, 1), d.shape[2]),
                      BorderCoordinate(Point(ix, 0), d.shape[3]))
        \* inside = torch.all(inside, dim=-1)
        inside(ix) == \A a \in 0..2 : InsideComponent(Point(ix, a))
    IN  \* samples[~inside] *= 0, then view_as_complex
        Tensor(out_shape,
               [ix \in Idx(out_shape) |->
                   IF inside(ix) THEN <<Sample(ix, 1), Sample(ix, 2)>>
                                 ELSE <<Sample(ix, 1) * 0, Sample(ix, 2) * 0>>])

\* Cubic DFTs of side 2..MaxSide holding one non-zero value.
SliceDfts == UNION {Spikes(<<d, d, d>>) : d \in 2..MaxSide}

\* One sampling point (b = h = w = 1), each coordinate between Margin voxels
\* below 0 and Margin voxels above d - 1, in steps of half a voxel.
SliceCoordinates(d) ==
    {Tensor(<<1, 1, 1, 3>>, [ix \in Idx(<<1, 1, 1, 3>>) |-> c[ix[4] + 1]]) :
        c \in [1..3 -> (0 - 2 * Margin)..(2 * (d - 1) + 2 * Margin)]}

InitSlices ==
    /\ pc = "call"
    /\ dft \in SliceDfts
    /\ slice_coordinates \in SliceCoordinates(dft.shape[1])
    /\ samples = Unused
    /\ volume = Unused
    /\ rfft = Unused
    /\ dft0 = Unused
    /\ calls = Unused
    /\ rfft_flag = Unused
    /\ image_shape = Unused
    /\ IdleCenter
    /\ IdleGrid
    /\ IdleCuboid
    /\ IdleProject

Call_extract_slices ==
    /\ pc = "call"
    /\ samples' = extract_slices(dft, slice_coordinates)
    /\ pc' = "done"
    /\ UNCHANGED <<slice_coordinates, rfft_flag, image_shape, centerVars, gridVars,
                   symVars, cuboidVars, projectVars>>

NextSlices == Call_extract_slices

SpecSlices == InitSlices /\ [][NextSlices]_vars

\* Whether the sampling point lies outside [0, d-1] on every axis.
OutsideOnEveryAxis ==
    \A a \in 0..2 :
        LET c == slice_coordinates.data[<<0, 0, 0, a>>]
        IN  c < 0 \/ c > 2 * (dft.shape[a + 1] - 1)

\* C4: extract_slices zeroes every sample outside the valid cube: for a DFT of
\* side d, a sampling point outside [0, d-1] on every axis yields a complex
\* value whose real and imaginary channels are both zero, whatever the DFT.
C4_ZeroOutsideCube ==
    (pc = "done" /\ OutsideOnEveryAxis) => samples.data[<<0, 0, 0>>] = CZero

\* At a voxel centre inside the cube the sample is the DFT value there.
SampleAtVoxelCentre ==
    (pc = "done" /\ \A a \in 0..2 :
                        LET c == slice_coordinates.data[<<0, 0, 0, a>>]
                        IN  c % 2 = 0 /\ c >= 0 /\ c <= 2 * (dft.shape[a + 1] - 1))
    => samples.data[<<0, 0, 0>>] =
           dft.data[<<slice_coordinates.data[<<0, 0, 0, 0>>] \div 2,
                      slice_coordinates.data[<<0, 0, 0, 1>>] \div 2,
                      slice_coordinates.data[<<0, 0, 0, 2>>] \div 2>>]

----------------------------------------------------------------------------
(* libtilt/shapes/shapes_3d.py : cuboid *)

\* Largest full dimension (in voxels) of a cuboid along one axis.
MaxDimension == 4

\* libtilt.utils.fft.dft_center, the name shapes_3d.py imports: the centre
\* convention of fft_center, with keyword arguments.
dft_center(shape, is_rfft, shifted) == fft_center(shape, shifted, is_rfft)

\* libtilt.grids.coordinate_grid without norm: per voxel, its offset from the
\* centre on each axis, in the axis order of the image shape.
coordinate_grid(shape, c) ==
    LET out_shape == shape \o <<Len(shape)>>
    IN  Tensor(out_shape,
               [ix \in Idx(out_shape) |-> ix[ix[4] + 1] - c[ix[4] + 1]])

\* libtilt.shapes.soft_edge.add_soft_edge_3d with smoothing_radius = 0: the
\* mask itself, as real values 0 and 1.
add_soft_edge_3d(m) ==
    Tensor(m.shape, [ix \in Idx(m.shape) |-> IF m.data[ix] THEN 1 ELSE 0])

\* An image_shape argument is an int or a 3-tuple; a center argument is None
\* or a 3-tuple.
IntShape(n) == [int |-> TRUE, side |-> n]
TupleShape(t) == [int |-> FALSE, shape |-> t]
None == [given |-> FALSE]
Given(c) == [given |-> TRUE, value |-> c]

\* if isinstance(image_shape, int): image_shape = (image_shape,) * 3
CuboidImageShape(shape) ==
    IF shape.int THEN <<shape.side, shape.side, shape.side>> ELSE shape.shape

\* if center is None: center = dft_center(image_shape, rfft=False, fftshifted=True)
CuboidCenter(shape, c) ==
    IF c.given THEN c.value ELSE dft_center(CuboidImageShape(shape), FALSE, TRUE)

\* cuboid with smoothing_radius = 0.  dd, dh, dw are dimensions / 2; an offset
\* x is compared as 2 * x against the full dimension.
cuboid(dims, shape, c) ==
    LET sh == CuboidImageShape(shape)
        coordinates == coordinate_grid(sh, CuboidCenter(shape, c))
        dd2 == dims[1]
        dh2 == dims[2]
        dw2 == dims[3]
        At(ix, a) == 2 * coordinates.data[ix \o <<a>>]
        depth_mask(ix)  == At(ix, 0) > 0 - dh2 /\ At(ix, 0) < dh2
        height_mask(ix) == At(ix, 1) > 0 - dw2 /\ At(ix, 1) < dw2
        width_mask(ix)  == At(ix, 2) > 0 - dw2 /\ At(ix, 2) < dw2
    IN  add_soft_edge_3d(
            Tensor(sh, [ix \in Idx(sh) |->
                           depth_mask(ix) /\ height_mask(ix) /\ width_mask(ix)]))

CuboidDimensions == [1..3 -> 1..MaxDimension]

CuboidImageShapes ==
    {IntShape(n) : n \in 1..MaxLen} \cup {TupleShape(t) : t \in [1..3 -> 1..MaxLen]}

CuboidCenters == {None, Given(<<0, 0, 0>>), Given(<<1, 2, 1>>)}

InitCuboid ==
    /\ pc = "call"
    /\ dimensions \in CuboidDimensions
    /\ image_shape \in CuboidImageShapes
    /\ center \in CuboidCenters
    /\ mask = Unused
    /\ grid_shape = Unused
    /\ fftshifted = Unused
    /\ rfft_flag = Unused
    /\ IdleGrid
    /\ IdleSym
    /\ IdleSlices
    /\ IdleProject

Call_cuboid ==
    /\ pc = "call"
    /\ mask' = cuboid(dimensions, image_shape, center)
    /\ pc' = "done"
    /\ UNCHANGED <<dimensions, rfft_flag, image_shape, centerVars, gridVars, symVars,
                   sliceVars, projectVars>>

NextCuboid == Call_cuboid

SpecCuboid == InitCuboid /\ [][NextCuboid]_vars

\* Offset of voxel ix from the centre on axis a (1 = depth, 2 = height, 3 = width).
Offset(ix, a) == ix[a] - CuboidCenter(image_shape, center)[a]

\* C5: with smoothing_radius = 0, cuboid marks a voxel as inside if and only
\* if on each axis the voxel's offset from the centre lies strictly between
\* minus half and plus half of that same axis' dimension.
C5_CuboidPerAxis ==
    pc = "done" =>
        \A ix \in Idx(mask.shape) :
            mask.data[ix] = 1 <=>
                \A a \in 1..3 : /\ 2 * Offset(ix, a) > 0 - dimensions[a]
                                /\ 2 * Offset(ix, a) < dimensions[a]

\* What the code computes: depth against half the height, height and width
\* against half the width, all strictly.
CuboidAsCoded ==
    pc = "done" =>
        \A ix \in Idx(mask.shape) :
            mask.data[ix] = 1 <=>
                /\ 2 * Offset(ix, 1) > 0 - dimensions[2] /\ 2 * Offset(ix, 1) < dimensions[2]
                /\ 2 * Offset(ix, 2) > 0 - dimensions[3] /\ 2 * Offset(ix, 2) < dimensions[3]
                /\ 2 * Offset(ix, 3) > 0 - dimensions[3] /\ 2 * Offset(ix, 3) < dimensions[3]

\* For a cube of dimensions the two agree.
CuboidOfACube ==
    (pc = "done" /\ dimensions[1] = dimensions[2] /\ dimensions[2] = dimensions[3])
    => \A ix \in Idx(mask.shape) :
            mask.data[ix] = 1 <=>
                \A a \in 1..3 : /\ 2 * Offset(ix, a) > 0 - dimensions[a]
                                /\ 2 * Offset(ix, a) < dimensions[a]

----------------------------------------------------------------------------
(* libtilt/projection/fourier.py : project *)

\* F.pad(volume, pad=[n] * 6, mode='constant', value=0)
Pad(v, n) ==
    LET out_shape == <<v.shape[1] + 2 * n, v.shape[2] + 2 * n, v.shape[3] + 2 * n>>
        Kept(ix) == \A a \in 1..3 : ix[a] >= n /\ ix[a] < n + v.shape[a]
    IN  Tensor(out_shape,
               [ix \in Idx(out_shape) |->
                   IF Kept(ix) THEN v.data[<<ix[1] - n, ix[2] - n, ix[3] - n>>] ELSE 0])

\* libtilt.utils.fft.fftshift_3d: the non-reduced axes shifted, all three when
\* not in rfft mode.
fftshift_3d(t, is_rfft) == fftshift(t, IF is_rfft THEN {1, 2} ELSE {1, 2, 3})

\* libtilt.utils.fft.fftfreq_central_slice: the (h, w, 3) grid of zyx
\* frequencies of the z = 0 plane, as multiples of 1 / N like fftfreq above.
fftfreq_central_slice(shape, is_rfft, shifted) ==
    LET yx == construct_fftfreq_grid_2d(<<shape[2], shape[3]>>, is_rfft).value
        sh == IF shifted THEN fftshift(yx, IF is_rfft THEN {1} ELSE {1, 2}) ELSE yx
        out_shape == <<sh.shape[1], sh.shape[2], 3>>
    IN  Tensor(out_shape,
               [ix \in Idx(out_shape) |->
                   IF ix[3] = 0 THEN 0 ELSE sh.data[<<ix[1], ix[2], ix[3] - 1>>]])

\* torch.flip(t, dims=(-1, )) of a tensor whose last axis has length 3.
FlipLast(t) ==
    LET n == Len(t.shape)
    IN  Tensor(t.shape, [ix \in Idx(t.shape) |-> t.data[[ix EXCEPT ![n] = 2 - ix[n]]]])

\* rotation_matrices @ grid with the rearranges around it:
\* (b, 3, 3) applied to every point of (h, w, 3), giving (b, h, w, 3).
Rotate(matrices, g) ==
    LET out_shape == <<matrices.shape[1], g.shape[1], g.shape[2], 3>>
    IN  Tensor(out_shape,
               [ix \in Idx(out_shape) |->
                   matrices.data[<<ix[1], ix[4], 0>>] * g.data[<<ix[2], ix[3], 0>>]
                   + matrices.data[<<ix[1], ix[4], 1>>] * g.data[<<ix[2], ix[3], 1>>]
                   + matrices.data[<<ix[1], ix[4], 2>>] * g.data[<<ix[2], ix[3], 2>>]])

\* Lines 104-119: the central slice, rotated, in zyx order.
RotatedGrid(shape, matrices, is_zyx) ==
    LET g == fftfreq_central_slice(shape, TRUE, TRUE)
    IN  IF is_zyx THEN Rotate(matrices, g)
                  ELSE FlipLast(Rotate(matrices, FlipLast(g)))

\* A plausible slip: the sign is read off the first (depth) component, which
\* is the reduced axis only in xyz order.
RedundantHalfMask_first_component(g) ==
    Tensor(g.shape,
           [ix \in Idx(g.shape) |-> g.data[<<ix[1], ix[2], ix[3], 0>>] < 0])

\* in_redundant_half_mask = repeat(grid[..., 2] < 0, '... -> ... 3')
RedundantHalfMask(g) ==
    Tensor(g.shape,
           [ix \in Idx(g.shape) |-> g.data[<<ix[1], ix[2], ix[3], 2>>] < 0])

\* grid[in_redundant_half_mask] *= -1
Redirect(g, m) ==
    Tensor(g.shape,
           [ix \in Idx(g.shape) |-> IF m.data[ix] THEN g.data[ix] * (0 - 1)
                                                  ELSE g.data[ix]])

\* libtilt.utils.fft.fftfreq_to_dft_coordinates: frequency times axis length,
\* plus the index of the DC component of the shifted transform.
fftfreq_to_dft_coordinates(frequencies, shape, is_rfft) ==
    LET dc == dft_center(shape, is_rfft, TRUE)
    IN  Tensor(frequencies.shape,
               [ix \in Idx(frequencies.shape) |-> frequencies.data[ix] + dc[ix[4] + 1]])

\* Array coordinates rewritten in the half voxels extract_slices is modelled in.
InHalfVoxels(coords) ==
    Tensor(coords.shape, [ix \in Idx(coords.shape) |-> 2 * coords.data[ix]])

\* projections[mask[..., 0]] = torch.conj(projections[mask[..., 0]])
ConjugateRedirected(p, m) ==
    Tensor(p.shape,
           [ix \in Idx(p.shape) |->
               IF m.data[ix \o <<0>>] THEN Conj(p.data[ix]) ELSE p.data[ix]])

\* c * exp(-2 pi i k / n) for a complex c.
CTwiddle(c, k, n) ==
    LET re == Twiddle(c[1], k, n)
        im == Twiddle(c[2], k, n)
    IN  <<re[1] - im[2], re[2] + im[1]>>

\* torch.fft.irfftn(x, dim=(-2, -1)) of a (b, h, w/2+1) tensor: a full inverse
\* transform along h, then the inverse of a one-sided transform along the last
\* axis, in which the imaginary parts of the zero and Nyquist terms are ignored.
irfftn(x) ==
    LET h == x.shape[2]
        w == 2 * (x.shape[3] - 1)
        out_shape == <<x.shape[1], h, w>>
        AlongH(b, y, k) ==
            CSum(0..(h - 1),
                 [ky \in 0..(h - 1) |-> CTwiddle(x.data[<<b, ky, k>>], 0 - (ky * y), h)])
        Term(b, y, n, k) ==
            LET re == CTwiddle(AlongH(b, y, k), 0 - (k * n), w)[1]
            IN  IF k = 0 \/ 2 * k = w THEN re ELSE 2 * re
        Sum(b, y, n) ==
            CSum(0..(w \div 2), [k \in 0..(w \div 2) |-> <<Term(b, y, n, k), 0>>])[1]
    IN  Tensor(out_shape,
               [ix \in Idx(out_shape) |-> Sum(ix[1], ix[2], ix[3]) \div (h * w)])

\* projections[:, n:-n, n:-n]
Unpad(p, n) ==
    LET out_shape == <<p.shape[1], p.shape[2] - 2 * n, p.shape[3] - 2 * n>>
    IN  Tensor(out_shape,
               [ix \in Idx(out_shape) |-> p.data[<<ix[1], ix[2] + n, ix[3] + n>>]])

\* Lines 93-96: the volume after optional padding.
Padded(v, is_pad) == IF is_pad THEN Pad(v, Last(v.shape) \div 2) ELSE v

\* Lines 99-101.
ShiftedRfft(v) == fftshift_3d(rfftn(fftshift_3d(v, FALSE)), TRUE)

\* Lines 151-161, run once napari.run() has returned.
Projections(v, is_pad, d, g, m) ==
    LET sampled   == ConjugateRedirected(extract_slices(d, InHalfVoxels(g)), m)
        image     == ifftshift(irfftn(ifftshift(sampled, {2})), {2})
    IN  IF is_pad THEN Unpad(image, Last(v.shape) \div 2) ELSE image

\* The 3 x 3 matrices with one entry +1 or -1 in every row and column.
SignedPermutations ==
    {m \in [1..3 -> [1..3 -> {0 - 1, 0, 1}]] :
        /\ \A i \in 1..3 : Cardinality({j \in 1..3 : m[i][j] # 0}) = 1
        /\ \A j \in 1..3 : Cardinality({i \in 1..3 : m[i][j] # 0}) = 1}

Det(m) ==
    m[1][1] * (m[2][2] * m[3][3] - m[2][3] * m[3][2])
    - m[1][2] * (m[2][1] * m[3][3] - m[2][3] * m[3][1])
    + m[1][3] * (m[2][1] * m[3][2] - m[2][2] * m[3][1])

\* One rotation per call (b = 1): the 24 rotations that map the frequency
\* lattice onto itself.
RotationMatrices ==
    {Tensor(<<1, 3, 3>>, [ix \in Idx(<<1, 3, 3>>) |-> m[ix[2] + 1][ix[3] + 1]]) :
        m \in {r \in SignedPermutations : Det(r) = 1}}

\* The volumes that can be padded and still transformed exactly: those of side 2.
ProjectVolumes == {v \in Volumes : Last(Padded(v, TRUE).shape) \in DftSides}

\* The locals of project that later statements overwrite, before any is set.
NoLocals ==
    [rotated |-> NoTensor, redirected |-> NoTensor,
     sampled |-> NoTensor, conjugated |-> NoTensor]

\* Line 152: what extract_slices returns for the grid of array coordinates.
Sampled(d, g) == extract_slices(d, InHalfVoxels(g))

InitProject ==
    /\ pc = "call"
    /\ volume \in ProjectVolumes
    /\ pad \in BOOLEAN
    /\ rotation_matrices \in RotationMatrices
    /\ zyx \in BOOLEAN
    /\ dft = NoTensor
    /\ grid = NoTensor
    /\ in_redundant_half_mask = NoTensor
    /\ projections = NoTensor
    /\ locals = NoLocals
    /\ viewer = "none"
    /\ rfft = Unused
    /\ dft0 = Unused
    /\ calls = Unused
    /\ rfft_flag = Unused
    /\ image_shape = Unused
    /\ IdleCenter
    /\ IdleGrid
    /\ IdleSlices
    /\ IdleCuboid

projectOutside ==
    <<rfft, dft0, calls, rfft_flag, image_shape, centerVars, gridVars, sliceVars,
      cuboidVars>>

\* Lines 93-146: everything up to the call of napari.run(), which shows the
\* viewer and runs its event loop until the window is closed.
Call_project ==
    /\ pc = "call"
    /\ LET v == Padded(volume, pad)
           g == RotatedGrid(v.shape, rotation_matrices, zyx)
           m == RedundantHalfMask(g)
       IN  /\ dft' = ShiftedRfft(v)
           /\ in_redundant_half_mask' = m
           /\ grid' = fftfreq_to_dft_coordinates(Redirect(g, m), v.shape, TRUE)
           /\ locals' = [locals EXCEPT !.rotated = g, !.redirected = Redirect(g, m)]
    /\ viewer' = "open"
    /\ pc' = "napari.run"
    /\ UNCHANGED <<volume, rotation_matrices, zyx, pad, projections, projectOutside>>

\* The user closes the viewer window; napari.run() returns.
CloseViewer ==
    /\ pc = "napari.run"
    /\ viewer = "open"
    /\ viewer' = "closed"
    /\ pc' = "extract"
    /\ UNCHANGED <<volume, dft, rotation_matrices, zyx, pad, grid,
                   in_redundant_half_mask, projections, locals, projectOutside>>

\* Lines 151-161.
Return_project ==
    /\ pc = "extract"
    /\ projections' = Projections(volume, pad, dft, grid, in_redundant_half_mask)
    /\ locals' = [locals EXCEPT
                     !.sampled = Sampled(dft, grid),
                     !.conjugated = ConjugateRedirected(Sampled(dft, grid),
                                                        in_redundant_half_mask)]
    /\ pc' = "returned"
    /\ UNCHANGED <<volume, dft, rotation_matrices, zyx, pad, grid,
                   in_redundant_half_mask, viewer, projectOutside>>

NextProject == Call_project \/ CloseViewer \/ Return_project

SpecProject == InitProject /\ [][NextProject]_vars

\* C9: project is non-blocking and free of side effects: a call goes from
\* coordinate construction to slice extraction and its return without opening
\* a visualization window and without waiting for the user.
C9_NonBlocking == viewer = "none" /\ pc # "napari.run"

\* The zero-frequency term: every projection sums to the sum of the volume.
SumOf(t) == CSum(Idx(t.shape), [ix \in Idx(t.shape) |-> <<t.data[ix], 0>>])[1]

ProjectionKeepsTheSum ==
    (pc = "returned" /\ ~pad) => SumOf(projections) = SumOf(volume)

\* The sample points of a (b, h, w, 3) grid.
SamplePoints(g) == Idx(<<g.shape[1], g.shape[2], g.shape[3]>>)

\* Whether the rotated sample point p has a negative frequency component on
\* the reduced axis, the last of zyx.
OnRedundantHalf(p) == locals.rotated.data[p \o <<2>>] < 0

\* C11: in project the conjugate-half correction redirects exactly the rotated
\* sample points whose frequency component on the reduced (last, rfft) axis is
\* negative: at such a point all three frequency coordinates are negated, every
\* other point is left unchanged, and afterwards every sample point has a
\* non-negative component on the reduced axis; after extraction the sampled
\* value is conjugated at exactly the redirected points, for both settings of
\* the zyx flag.
C11_ConjugateHalf ==
    /\ pc \in {"napari.run", "extract", "returned"} =>
          \A p \in SamplePoints(locals.rotated) :
              /\ \A a \in 0..2 :
                    /\ in_redundant_half_mask.data[p \o <<a>>] = OnRedundantHalf(p)
                    /\ locals.redirected.data[p \o <<a>>] =
                          IF OnRedundantHalf(p)
                          THEN 0 - locals.rotated.data[p \o <<a>>]
                          ELSE locals.rotated.data[p \o <<a>>]
              /\ locals.redirected.data[p \o <<2>>] >= 0
    /\ pc = "returned" =>
          /\ locals.conjugated.shape = locals.sampled.shape
          /\ \A p \in SamplePoints(locals.rotated) :
                locals.conjugated.data[p] =
                    IF OnRedundantHalf(p)
                    THEN <<locals.sampled.data[p][1], 0 - locals.sampled.data[p][2]>>
                    ELSE locals.sampled.data[p]

\* A padded volume rotated in xyz order: one point was redirected and its
\* sample, which has an imaginary part, conjugated; another, also with an
\* imaginary part, was left as sampled.
C11_Witness ==
    /\ pc = "returned"
    /\ pad
    /\ ~zyx
    /\ \E p, q \in SamplePoints(locals.rotated) :
          /\ OnRedundantHalf(p)
          /\ locals.redirected.data[p \o <<2>>] > 0
          /\ locals.sampled.data[p][2] # 0
          /\ locals.conjugated.data[p] # locals.sampled.data[p]
          /\ ~OnRedundantHalf(q)
          /\ locals.sampled.data[q][2] # 0
          /\ locals.conjugated.data[q] = locals.sampled.data[q]

\* The same case with rotation matrices that apply to zyx coordinates.
RedirectedWithZyx ==
    /\ pc = "returned"
    /\ zyx
    /\ \E p \in SamplePoints(locals.rotated) :
          /\ OnRedundantHalf(p)
          /\ locals.conjugated.data[p] # locals.sampled.data[p]

====
